---- MODULE Spec2Model ----
(***************************************************************************)
(* Layout engine of the network diagram (src/app/page.tsx): the drag-time  *)
(* collision resolver, the position store, the data-load placement and the *)
(* edge attachment selector.                                               *)
(*                                                                         *)
(* Numbers.  The program computes with IEEE doubles in pixels.  The model  *)
(* computes in fixed point: one unit is 1/20 px, so that 31.25 px, 5 px    *)
(* and 0.1 px are the integers 625, 100 and 2.  Every product or quotient  *)
(* of the code is rounded to the nearest unit.  Comparisons of a distance  *)
(* with a threshold are made on the squares, which is exact.               *)
(***************************************************************************)
EXTENDS Integers, Sequences, FiniteSets, TLC

VARIABLES
    nodes,      \* React state nodes
    edges,      \* React state edges
    store,      \* the localStorage item node-positions-<user id>
    timers,     \* callbacks handed to setTimeout(.., 0), oldest first
    dragging,   \* the id of the node of the drag gesture in progress
    db,         \* the rows of the people table as last fetched
    steps,      \* number of events handled
    last,       \* the event handled last and what it started from
    phase,      \* progress through drag end, save, refresh, reload
    run         \* one function of the page called on its own, step by step

appVars == << nodes, edges, store, timers, dragging, db, steps, last, phase >>
vars == << nodes, edges, store, timers, dragging, db, steps, last, phase, run >>

\* ------------------------------------------------------------------------
\* Bounds of the model
\* ------------------------------------------------------------------------
\* number of contact nodes in the node lists handed to the resolver
MaxContacts == 2
\* number of events (loads, drag events, timers, refreshes, resets) in a run
MaxSteps == 6

\* ------------------------------------------------------------------------
\* Program constants (page.tsx:162-164, 199, 218), in units of 1/20 px
\* ------------------------------------------------------------------------
NODE_RADIUS == 500
MIN_DISTANCE == (NODE_RADIUS * 125) \div 100
BOUNCE_FORCE == 100
\* a budget twice as large
maxIterationsDoubled == 10 + 10
maxIterations == 10
\* the near-zero threshold 0.1 of the drag-time resolver
EPSILON == 2

NoId == "none"
CenterId == "user-center"
FallbackId == "fallback-user-center"

\* ------------------------------------------------------------------------
\* Arithmetic
\* ------------------------------------------------------------------------
Abs(a) == IF a < 0 THEN -a ELSE a
Sign(a) == IF a < 0 THEN -1 ELSE IF a > 0 THEN 1 ELSE 0

\* a / b rounded to the nearest integer (b > 0), halves away from zero
RoundDiv(a, b) == Sign(a) * ((2 * Abs(a) + b) \div (2 * b))

RECURSIVE SqrtSearch(_, _, _)
\* the largest r in lo..hi with r*r <= s
SqrtSearch(s, lo, hi) ==
    IF lo >= hi THEN lo
    ELSE LET mid == (lo + hi + 1) \div 2
         IN IF mid * mid <= s THEN SqrtSearch(s, mid, hi)
                              ELSE SqrtSearch(s, lo, mid - 1)

\* Math.sqrt, rounded to the nearest unit
Sqrt(s) ==
    LET f == SqrtSearch(s, 0, 32767)
    IN IF s - f * f > f THEN f + 1 ELSE f

Dist2(a, b) == (b.x - a.x) * (b.x - a.x) + (b.y - a.y) * (b.y - a.y)

\* ------------------------------------------------------------------------
\* Nodes
\* ------------------------------------------------------------------------
IsUserCenter(id) == id = CenterId \/ id = FallbackId

MkNode(id, x, y) == [id |-> id, x |-> x, y |-> y, draggable |-> ~IsUserCenter(id)]

\* const fallbackNodes
fallbackNodes == << MkNode(FallbackId, 0, 0) >>

\* ------------------------------------------------------------------------
\* detectAndResolveCollisions
\* ------------------------------------------------------------------------
\* Colliding with the node radius as the threshold
CollidingWithinRadius(a, b) ==
    /\ Dist2(a, b) < NODE_RADIUS * NODE_RADIUS
    /\ Dist2(a, b) > EPSILON * EPSILON

\* Colliding with distance <= MIN_DISTANCE
CollidingInclusive(a, b) ==
    /\ Dist2(a, b) <= MIN_DISTANCE * MIN_DISTANCE
    /\ Dist2(a, b) > EPSILON * EPSILON

\* distance < MIN_DISTANCE && distance > 0.1
Colliding(a, b) ==
    /\ Dist2(a, b) < MIN_DISTANCE * MIN_DISTANCE
    /\ Dist2(a, b) > EPSILON * EPSILON

\* PushShares without the branches for the centre node
PushSharesAnchorMoves(idA, idB, changedNodeId, pushDistance) ==
    << IF changedNodeId = idA THEN RoundDiv(pushDistance * 15, 100)
                              ELSE RoundDiv(pushDistance * 25, 100),
       IF changedNodeId = idB THEN RoundDiv(pushDistance * 15, 100)
                              ELSE RoundDiv(pushDistance * 25, 100) >>

\* PushShares without the smaller share of the dragged node
PushSharesEqual(idA, idB, changedNodeId, pushDistance) ==
    IF IsUserCenter(idA) THEN << 0, pushDistance >>
    ELSE IF IsUserCenter(idB) THEN << pushDistance, 0 >>
    ELSE << RoundDiv(pushDistance * 25, 100), RoundDiv(pushDistance * 25, 100) >>

\* PushShares with 0.02 and 0.03 in the place of 0.15 and 0.25
PushSharesSlow(idA, idB, changedNodeId, pushDistance) ==
    IF IsUserCenter(idA) THEN << 0, pushDistance >>
    ELSE IF IsUserCenter(idB) THEN << pushDistance, 0 >>
    ELSE << IF changedNodeId = idA THEN RoundDiv(pushDistance * 2, 100)
                                   ELSE RoundDiv(pushDistance * 3, 100),
            IF changedNodeId = idB THEN RoundDiv(pushDistance * 2, 100)
                                   ELSE RoundDiv(pushDistance * 3, 100) >>

\* the shares pushA, pushB of pushDistance
PushShares(idA, idB, changedNodeId, pushDistance) ==
    IF IsUserCenter(idA) THEN << 0, pushDistance >>
    ELSE IF IsUserCenter(idB) THEN << pushDistance, 0 >>
    ELSE << IF changedNodeId = idA THEN RoundDiv(pushDistance * 15, 100)
                                   ELSE RoundDiv(pushDistance * 25, 100),
            IF changedNodeId = idB THEN RoundDiv(pushDistance * 15, 100)
                                   ELSE RoundDiv(pushDistance * 25, 100) >>

\* One execution of the body of the inner loop for the pair (i, j).  nodeA is
\* the object read from updatedNodes[i] when the outer loop reached i: the
\* test and the direction use nodeA, the update uses updatedNodes[i].
CorrectPair(updatedNodes, nodeA, i, j, changedNodeId) ==
    LET nodeB == updatedNodes[j]
        dx == nodeB.x - nodeA.x
        dy == nodeB.y - nodeA.y
        distance == Sqrt(dx * dx + dy * dy)
        overlap == MIN_DISTANCE - distance
        pushDistance == overlap + BOUNCE_FORCE
        push == PushShares(nodeA.id, nodeB.id, changedNodeId, pushDistance)
        newA == [updatedNodes[i] EXCEPT
                   !.x = @ - RoundDiv(dx * push[1], distance),
                   !.y = @ - RoundDiv(dy * push[1], distance)]
        newB == [updatedNodes[j] EXCEPT
                   !.x = @ + RoundDiv(dx * push[2], distance),
                   !.y = @ + RoundDiv(dy * push[2], distance)]
    IN IF Colliding(nodeA, nodeB)
       THEN [nodes |-> [updatedNodes EXCEPT ![i] = newA, ![j] = newB],
             hit |-> TRUE, pushA |-> push[1], pushB |-> push[2]]
       ELSE [nodes |-> updatedNodes, hit |-> FALSE, pushA |-> 0, pushB |-> 0]

RECURSIVE InnerLoop(_, _, _, _, _, _)
\* for (j = ...; j < updatedNodes.length; j++)
InnerLoop(updatedNodes, nodeA, i, j, changedNodeId, hasCollisions) ==
    IF j > Len(updatedNodes)
    THEN [nodes |-> updatedNodes, hasCollisions |-> hasCollisions]
    ELSE LET c == CorrectPair(updatedNodes, nodeA, i, j, changedNodeId)
         IN InnerLoop(c.nodes, nodeA, i, j + 1, changedNodeId,
                      hasCollisions \/ c.hit)

RECURSIVE OuterLoop(_, _, _, _)
\* for (i = ...; i < updatedNodes.length; i++)
OuterLoop(updatedNodes, i, changedNodeId, hasCollisions) ==
    IF i > Len(updatedNodes)
    THEN [nodes |-> updatedNodes, hasCollisions |-> hasCollisions]
    ELSE LET r == InnerLoop(updatedNodes, updatedNodes[i], i, i + 1,
                            changedNodeId, hasCollisions)
         IN OuterLoop(r.nodes, i + 1, changedNodeId, r.hasCollisions)

RECURSIVE WhileLoop(_, _, _, _)
\* while (hasCollisions && iterations < maxIterations)
WhileLoop(updatedNodes, hasCollisions, iterations, changedNodeId) ==
    IF hasCollisions /\ iterations < maxIterations
    THEN LET r == OuterLoop(updatedNodes, 1, changedNodeId, FALSE)
         IN WhileLoop(r.nodes, r.hasCollisions, iterations + 1, changedNodeId)
    ELSE [nodes |-> updatedNodes, hasCollisions |-> hasCollisions,
          iterations |-> iterations]

detectAndResolveCollisions(nodeList, changedNodeId) ==
    WhileLoop(nodeList, TRUE, 0, changedNodeId).nodes

\* ------------------------------------------------------------------------
\* getHandleIndex: the edge attachment selector
\* ------------------------------------------------------------------------
NUM_HANDLES == 64

\* 10000 * cos((2m+1) * pi / 64), m = 0..15
CosTable == << 9988, 9892, 9700, 9415, 9040, 8577, 8032, 7410,
               6716, 5957, 5141, 4276, 3369, 2430, 1467, 491 >>

\* 10000 * cos(q * pi / 64) and 10000 * sin(q * pi / 64) for odd q
CosOdd(q) ==
    LET r == q % 128
    IN IF r < 32 THEN CosTable[(r - 1) \div 2 + 1]
       ELSE IF r < 64 THEN -CosTable[(63 - r) \div 2 + 1]
       ELSE IF r < 96 THEN -CosTable[(r - 65) \div 2 + 1]
       ELSE CosTable[(127 - r) \div 2 + 1]
SinOdd(q) == CosOdd(q - 32)

\* 10000 * cos(k * 2pi / 64), k = 0..16
HandleTable == << 10000, 9952, 9808, 9569, 9239, 8819, 8315, 7730, 7071,
                  6344, 5556, 4714, 3827, 2903, 1951, 980, 0 >>

\* 10000 * cos(index * 2pi / 64 - pi / 2) and 10000 * sin(index * 2pi / 64 -
\* pi / 2): where PersonCircleNode puts the handle of an index, seen from
\* the middle of the node (x to the right, y down)
HandleCos(index) ==
    LET r == (index - 16) % 64
    IN IF r <= 16 THEN HandleTable[r + 1]
       ELSE IF r <= 32 THEN -HandleTable[32 - r + 1]
       ELSE IF r <= 48 THEN -HandleTable[r - 32 + 1]
       ELSE HandleTable[64 - r + 1]
HandleSin(index) == HandleCos(index - 16)

\* getHandleIndex with Math.floor in the place of Math.round: the handle at
\* or before the direction, going clockwise
getHandleIndexFloor(dx, dy) ==
    IF dx = 0 /\ dy = 0 THEN 16
    ELSE CHOOSE k \in 0..(NUM_HANDLES - 1) :
           /\ HandleCos(k) * dy - HandleSin(k) * dx >= 0
           /\ HandleCos(k + 1) * dy - HandleSin(k + 1) * dx < 0

\* Handle k sits at the angle k * 2pi/64 - pi/2 (0 = top, clockwise on the
\* screen, y pointing down).  Math.round takes the direction (dx, dy) to k
\* when its angle lies between the bounds (2k-1) * pi/64 - pi/2 and
\* (2k+1) * pi/64 - pi/2, that is between the odd multiples 2k-33 and 2k-31
\* of pi/64.  Math.atan2(0, 0) is 0, which is handle 16.
getHandleIndex(dx, dy) ==
    IF dx = 0 /\ dy = 0 THEN 16
    ELSE CHOOSE k \in 0..(NUM_HANDLES - 1) :
           /\ CosOdd(2 * k - 33 + 128) * dy - SinOdd(2 * k - 33 + 128) * dx >= 0
           /\ CosOdd(2 * k - 31 + 128) * dy - SinOdd(2 * k - 31 + 128) * dx < 0

\* getHandleIndex(-dx, -dy) as the code calls it for the target side: the
\* negation of a zero difference is -0, and Math.atan2(-0, -0) is -pi, which
\* is handle 48.
TargetHandleIndex(dx, dy) ==
    IF dx = 0 /\ dy = 0 THEN 48 ELSE getHandleIndex(-dx, -dy)

\* an edge with the handles for the positions of source and target
MkEdge(sourceId, targetId, sourceNode, targetNode) ==
    LET dx == targetNode.x - sourceNode.x
        dy == targetNode.y - sourceNode.y
    IN [source |-> sourceId, target |-> targetId,
        sourceHandle |-> getHandleIndex(dx, dy),
        targetHandle |-> TargetHandleIndex(dx, dy)]

\* ------------------------------------------------------------------------
\* Node lists
\* ------------------------------------------------------------------------
HasNode(ns, id) == \E k \in 1..Len(ns) : ns[k].id = id
\* nodes.find((n) => n.id === id), prevById.get(id)
FindNode(ns, id) ==
    ns[CHOOSE k \in 1..Len(ns) :
          ns[k].id = id /\ \A m \in 1..(k - 1) : ns[m].id # id]

\* ------------------------------------------------------------------------
\* The position store (localStorage item node-positions-<user id>)
\* ------------------------------------------------------------------------
NoPositions == [id \in {} |-> << 0, 0 >>]

\* saveNodePositions without the exclusion of the centre node
saveNodePositionsAll(ns) ==
    LET ids == { ns[k].id : k \in 1..Len(ns) }
    IN [id \in ids |-> << FindNode(ns, id).x, FindNode(ns, id).y >>]

\* saveNodePositions keeping only the first node that is not the centre node
saveNodePositionsFirst(ns) ==
    LET ks == { m \in 1..Len(ns) : ns[m].id # CenterId /\ ns[m].id # FallbackId }
        ids == { ns[k].id : k \in { m \in ks : \A q \in ks : m <= q } }
    IN [id \in ids |-> << FindNode(ns, id).x, FindNode(ns, id).y >>]

\* the map saveNodePositions writes for a node list
saveNodePositions(ns) ==
    LET ids == { ns[k].id : k \in { m \in 1..Len(ns) :
                     ns[m].id # CenterId /\ ns[m].id # FallbackId } }
    IN [id \in ids |-> << FindNode(ns, id).x, FindNode(ns, id).y >>]

\* the map loadNodePositions returns for the stored item
loadNodePositions(stored) == stored

ContactIds == << "p1", "p2", "p3" >>

\* ------------------------------------------------------------------------
\* People (rows of getPeople, in created_at order)
\* ------------------------------------------------------------------------
Person(id, introducer) == [id |-> id, introducer_id |-> introducer]

\* the results of getPeople the model draws from: one direct contact; a
\* direct contact and a contact it introduced; the introduced contact
\* alone, its introducer not in the result
PeopleLists ==
    { << Person("p1", NoId) >>,
      << Person("p1", NoId), Person("p2", "p1") >>,
      << Person("p2", "p1") >> }

\* ------------------------------------------------------------------------
\* Initial placement (updateNodesAndEdges, the branch without existing or
\* saved position).  seedRandomFromString, Math.cos and Math.sin are
\* evaluated for the ids of the model: the tables hold the values the code
\* computes for "p1", "p2", "p3".
\* ------------------------------------------------------------------------
\* centerX + cos(angle) * radius, centerY + sin(angle) * radius with
\* angle = seed(id + "-angle") * 2pi, radius = 200 + (seed(id + "-radius") - 0.5) * 40
DirectPlacement(id) ==
    CASE id = "p1" -> << 3483, -1422 >>
      [] id = "p2" -> << -3548, -1859 >>
      [] id = "p3" -> << 3793, -1368 >>

\* baseOffsetRadius + (radiusRand - 0.5) * radiusJitter
IntroducedRadius(id) ==
    CASE id = "p1" -> 2222
      [] id = "p2" -> 2404
      [] id = "p3" -> 2424

\* 10000 * (cos, sin) of angle - angleToIntroducer, which is
\* -totalSpread / 2 + index * baseSpread + (angleRand - 0.5) * spreadJitter
\* for the child at index (from 0) among count children
IntroducedTurn(id, count, index) ==
    CASE id = "p1" /\ count = 1 -> << 9934, 1145 >>
      [] id = "p2" /\ count = 1 -> << 9998, 201 >>
      [] id = "p3" /\ count = 1 -> << 9932, 1162 >>
      [] id = "p1" /\ count = 2 /\ index = 0 -> << 9616, -2744 >>
      [] id = "p1" /\ count = 2 /\ index = 1 -> << 8740, 4859 >>
      [] id = "p2" /\ count = 2 /\ index = 0 -> << 9314, -3640 >>
      [] id = "p2" /\ count = 2 /\ index = 1 -> << 9160, 4012 >>
      [] id = "p3" /\ count = 2 /\ index = 0 -> << 9621, -2727 >>
      [] id = "p3" /\ count = 2 /\ index = 1 -> << 8731, 4875 >>

\* introducerNode.position + (cos(angle), sin(angle)) * radius, where
\* angleToIntroducer = atan2(introducer.y, introducer.x) (0 at the origin)
IntroducedPlacement(id, count, index, introducerNode) ==
    LET len == Sqrt(introducerNode.x * introducerNode.x
                    + introducerNode.y * introducerNode.y)
        ux == IF len = 0 THEN 10000 ELSE RoundDiv(introducerNode.x * 10000, len)
        uy == IF len = 0 THEN 0 ELSE RoundDiv(introducerNode.y * 10000, len)
        t == IntroducedTurn(id, count, index)
        c == RoundDiv(ux * t[1] - uy * t[2], 10000)
        sn == RoundDiv(ux * t[2] + uy * t[1], 10000)
    IN << introducerNode.x + RoundDiv(c * IntroducedRadius(id), 10000),
          introducerNode.y + RoundDiv(sn * IntroducedRadius(id), 10000) >>

\* ------------------------------------------------------------------------
\* updateNodesAndEdges
\* ------------------------------------------------------------------------
\* if (existing) existing.position else if (savedPosition) savedPosition
\* else the computed placement
ChoosePosition(prevNodes, savedPositions, id, computed) ==
    IF HasNode(prevNodes, id)
    THEN << FindNode(prevNodes, id).x, FindNode(prevNodes, id).y >>
    ELSE IF id \in DOMAIN savedPositions THEN savedPositions[id]
    ELSE computed

\* the centre node: the existing "user-center" node or a new one at (0, 0)
UserNode(prevNodes) ==
    IF HasNode(prevNodes, CenterId) THEN FindNode(prevNodes, CenterId)
    ELSE MkNode(CenterId, 0, 0)

\* existing != null ? { ...existing, position } : { id, position, ... }
PersonNode(prevNodes, id, position) ==
    IF HasNode(prevNodes, id)
    THEN [FindNode(prevNodes, id) EXCEPT !.x = position[1], !.y = position[2]]
    ELSE MkNode(id, position[1], position[2])

RECURSIVE DirectLoop(_, _, _, _, _)
\* directConnections.forEach: one node and one edge from the centre each
DirectLoop(direct, k, prevNodes, savedPositions, acc) ==
    IF k > Len(direct) THEN acc
    ELSE LET person == direct[k]
             position == ChoosePosition(prevNodes, savedPositions, person.id,
                                        DirectPlacement(person.id))
             node == PersonNode(prevNodes, person.id, position)
         IN DirectLoop(direct, k + 1, prevNodes, savedPositions,
                [nodes |-> Append(acc.nodes, node),
                 edges |-> Append(acc.edges,
                              MkEdge(CenterId, person.id, acc.nodes[1], node))])

RECURSIVE GroupKeys(_, _, _)
\* the keys of childrenByIntroducer in insertion order
GroupKeys(introduced, k, keys) ==
    IF k > Len(introduced) THEN keys
    ELSE LET person == introduced[k]
         IN IF person.introducer_id = person.id
               \/ \E m \in 1..Len(keys) : keys[m] = person.introducer_id
            THEN GroupKeys(introduced, k + 1, keys)
            ELSE GroupKeys(introduced, k + 1, Append(keys, person.introducer_id))

\* childrenByIntroducer.get(introducerId)
Children(introduced, introducerId) ==
    SelectSeq(introduced, LAMBDA q : q.introducer_id = introducerId /\ q.id # introducerId)

RECURSIVE ChildLoop(_, _, _, _, _, _, _)
\* children.forEach: one node and one edge from the introducer each
ChildLoop(children, k, introducerId, introducerNode, prevNodes, savedPositions, acc) ==
    IF k > Len(children) THEN acc
    ELSE LET person == children[k]
             position == ChoosePosition(prevNodes, savedPositions, person.id,
                             IntroducedPlacement(person.id, Len(children), k - 1,
                                                 introducerNode))
             node == PersonNode(prevNodes, person.id, position)
         IN ChildLoop(children, k + 1, introducerId, introducerNode, prevNodes,
                savedPositions,
                [nodes |-> Append(acc.nodes, node),
                 edges |-> Append(acc.edges,
                              MkEdge(introducerId, person.id, introducerNode, node))])

RECURSIVE GroupLoop(_, _, _, _, _, _)
\* childrenByIntroducer.forEach
GroupLoop(keys, g, introduced, prevNodes, savedPositions, acc) ==
    IF g > Len(keys) THEN acc
    ELSE LET introducerId == keys[g]
         IN IF ~HasNode(acc.nodes, introducerId) /\ ~HasNode(prevNodes, introducerId)
            THEN GroupLoop(keys, g + 1, introduced, prevNodes, savedPositions, acc)
            ELSE LET introducerNode ==
                         IF HasNode(acc.nodes, introducerId)
                         THEN FindNode(acc.nodes, introducerId)
                         ELSE FindNode(prevNodes, introducerId)
                 IN GroupLoop(keys, g + 1, introduced, prevNodes, savedPositions,
                        ChildLoop(Children(introduced, introducerId), 1,
                                  introducerId, introducerNode, prevNodes,
                                  savedPositions, acc))

\* the nodes and edges built before the initial collision resolution
PlaceAll(peopleList, prevNodes, savedPositions) ==
    LET directConnections == SelectSeq(peopleList, LAMBDA q : q.introducer_id = NoId)
        introducedConnections == SelectSeq(peopleList, LAMBDA q : q.introducer_id # NoId)
        start == [nodes |-> << UserNode(prevNodes) >>, edges |-> << >>]
        afterDirect == DirectLoop(directConnections, 1, prevNodes, savedPositions, start)
    IN GroupLoop(GroupKeys(introducedConnections, 1, << >>), 1,
                 introducedConnections, prevNodes, savedPositions, afterDirect)

\* the inline loop "Resolve any initial collisions in the layout":
\* distance < MIN_DISTANCE && distance > 0, pushDistance = overlap / 2 +
\* BOUNCE_FORCE, a quarter of it to each side; pairs with the centre node
\* are skipped; both the test and the new position of i use nodeA
InitialCorrectPair(resolvedNodes, nodeA, i, j) ==
    LET nodeB == resolvedNodes[j]
        dx == nodeB.x - nodeA.x
        dy == nodeB.y - nodeA.y
        d2 == dx * dx + dy * dy
        distance == Sqrt(d2)
        overlap == MIN_DISTANCE - distance
        pushDistance == RoundDiv(overlap, 2) + BOUNCE_FORCE
        share == RoundDiv(pushDistance * 25, 100)
        newA == [nodeA EXCEPT !.x = @ - RoundDiv(dx * share, distance),
                              !.y = @ - RoundDiv(dy * share, distance)]
        newB == [nodeB EXCEPT !.x = @ + RoundDiv(dx * share, distance),
                              !.y = @ + RoundDiv(dy * share, distance)]
    IN IF nodeB.id = CenterId /\ ~nodeB.draggable
       THEN [nodes |-> resolvedNodes, hit |-> FALSE]
       ELSE IF d2 < MIN_DISTANCE * MIN_DISTANCE /\ d2 > 0
       THEN [nodes |-> [resolvedNodes EXCEPT ![i] = newA, ![j] = newB], hit |-> TRUE]
       ELSE [nodes |-> resolvedNodes, hit |-> FALSE]

RECURSIVE InitialInner(_, _, _, _, _)
InitialInner(resolvedNodes, nodeA, i, j, hasCollisions) ==
    IF j > Len(resolvedNodes)
    THEN [nodes |-> resolvedNodes, hasCollisions |-> hasCollisions]
    ELSE LET c == InitialCorrectPair(resolvedNodes, nodeA, i, j)
         IN InitialInner(c.nodes, nodeA, i, j + 1, hasCollisions \/ c.hit)

RECURSIVE InitialOuter(_, _, _)
InitialOuter(resolvedNodes, i, hasCollisions) ==
    IF i > Len(resolvedNodes)
    THEN [nodes |-> resolvedNodes, hasCollisions |-> hasCollisions]
    ELSE IF resolvedNodes[i].id = CenterId /\ ~resolvedNodes[i].draggable
    THEN InitialOuter(resolvedNodes, i + 1, hasCollisions)
    ELSE LET r == InitialInner(resolvedNodes, resolvedNodes[i], i, i + 1, hasCollisions)
         IN InitialOuter(r.nodes, i + 1, r.hasCollisions)

RECURSIVE InitialWhile(_, _, _)
InitialWhile(resolvedNodes, hasCollisions, iterations) ==
    IF hasCollisions /\ iterations < maxIterations
    THEN LET r == InitialOuter(resolvedNodes, 1, FALSE)
         IN InitialWhile(r.nodes, r.hasCollisions, iterations + 1)
    ELSE [nodes |-> resolvedNodes, hasCollisions |-> hasCollisions,
          iterations |-> iterations]

\* what updateNodesAndEdges commits: setEdges(edges) with the edges built
\* during placement, and the resolved nodes as the new node list
updateNodesAndEdges(peopleList, prevNodes, stored) ==
    LET placed == PlaceAll(peopleList, prevNodes, loadNodePositions(stored))
    IN [nodes |-> InitialWhile(placed.nodes, TRUE, 0).nodes,
        edges |-> placed.edges,
        placed |-> placed.nodes]

\* ------------------------------------------------------------------------
\* The page: data loads, drag events, deferred saves, refresh, reset
\* ------------------------------------------------------------------------
\* pointer positions of the drag gestures: 35 px right of the centre node,
\* 15 px below that, 0.05 px below the initial placement of "p2" as the
\* contact introduced by "p1", 25 px from the centre node (overlapping it),
\* and 0.05 px right of the first
DragSpots == { << 700, 0 >>, << 700, 300 >>, << 5726, -2285 >>, << 300, 400 >>,
               << 701, 0 >> }

NoEvent == [kind |-> "init", prevNodes |-> << >>, placed |-> << >>]
Idle == [pc |-> "idle"]

Init ==
    /\ nodes = fallbackNodes
    /\ edges = << >>
    /\ store = NoPositions
    /\ timers = << >>
    /\ dragging = NoId
    /\ db \in PeopleLists
    /\ steps = 0
    /\ last = NoEvent
    /\ phase = "none"
    /\ run = Idle

\* loadPeople: getPeople returns peopleList, updateNodesAndEdges commits
\* the nodes and the edges
LoadPeople(peopleList) ==
    /\ steps < MaxSteps
    /\ \E r \in { updateNodesAndEdges(peopleList, nodes, store) } :
          /\ nodes' = r.nodes
          /\ edges' = r.edges
          /\ dragging' = IF HasNode(r.nodes, dragging) THEN dragging ELSE NoId
          /\ last' = [kind |-> "load", prevNodes |-> nodes, placed |-> r.placed]
    /\ db' = peopleList
    /\ phase' = IF phase = "refreshed" /\ peopleList = db THEN "reloaded" ELSE "none"
    /\ steps' = steps + 1
    /\ UNCHANGED << store, timers, run >>

\* UpdateEdgeHandles without the test of the edge's ends against the node
\* of the position change: every edge gets new handles
UpdateEdgeHandlesAll(currentEdges, nodesAfterCollision, changeId) ==
    [k \in 1..Len(currentEdges) |->
        LET edge == currentEdges[k]
        IN IF \/ ~HasNode(nodesAfterCollision, edge.source)
              \/ ~HasNode(nodesAfterCollision, edge.target)
           THEN edge
           ELSE MkEdge(edge.source, edge.target,
                       FindNode(nodesAfterCollision, edge.source),
                       FindNode(nodesAfterCollision, edge.target))]

\* step 4 of onNodesChange: the edges of the node of the position change
\* get the handles for the positions in nodesAfterCollision
UpdateEdgeHandles(currentEdges, nodesAfterCollision, changeId) ==
    [k \in 1..Len(currentEdges) |->
        LET edge == currentEdges[k]
        IN IF \/ ~HasNode(nodesAfterCollision, edge.source)
              \/ ~HasNode(nodesAfterCollision, edge.target)
              \/ (edge.source # changeId /\ edge.target # changeId)
           THEN edge
           ELSE MkEdge(edge.source, edge.target,
                       FindNode(nodesAfterCollision, edge.source),
                       FindNode(nodesAfterCollision, edge.target))]

\* applyNodeChanges for a position change carrying a position
ApplyPosition(ns, id, position) ==
    [k \in 1..Len(ns) |->
        IF ns[k].id = id THEN [ns[k] EXCEPT !.x = position[1], !.y = position[2]]
        ELSE ns[k]]

\* ScheduleSave without the test of positionChange.dragging
ScheduleSaveAlways(pending, positionDragging, nodesAfterCollision) ==
    Append(pending, [kind |-> "save", nodes |-> nodesAfterCollision])

\* step 3 of onNodesChange: if (positionChange && !positionChange.dragging)
\* setTimeout(() => saveNodePositions(nodesAfterCollision), 0)
ScheduleSave(pending, positionDragging, nodesAfterCollision) ==
    IF ~positionDragging
    THEN Append(pending, [kind |-> "save", nodes |-> nodesAfterCollision])
    ELSE pending

\* onNodesChange for a position change with dragging = true
DragMove(id, position) ==
    /\ steps < MaxSteps
    /\ ~IsUserCenter(id)
    /\ HasNode(nodes, id)
    /\ dragging \in { NoId, id }
    /\ \E nodesAfterCollision \in
            { detectAndResolveCollisions(ApplyPosition(nodes, id, position), id) } :
          /\ nodes' = nodesAfterCollision
          /\ edges' = UpdateEdgeHandles(edges, nodesAfterCollision, id)
          /\ timers' = ScheduleSave(timers, TRUE, nodesAfterCollision)
    /\ dragging' = id
    /\ last' = [kind |-> "dragMove", prevNodes |-> << >>, placed |-> << >>]
    /\ phase' = "none"
    /\ steps' = steps + 1
    /\ UNCHANGED << store, db, run >>

\* onNodesChange for the position change with dragging = false that ends
\* the gesture: no new position, no changedNodeId, a save is scheduled
DragEnd ==
    /\ steps < MaxSteps
    /\ dragging # NoId
    /\ HasNode(nodes, dragging)
    /\ \E nodesAfterCollision \in { detectAndResolveCollisions(nodes, NoId) } :
          /\ nodes' = nodesAfterCollision
          /\ edges' = UpdateEdgeHandles(edges, nodesAfterCollision, dragging)
          /\ timers' = ScheduleSave(timers, FALSE, nodesAfterCollision)
    /\ dragging' = NoId
    /\ last' = [kind |-> "dragEnd", prevNodes |-> << >>, placed |-> << >>]
    /\ phase' = "dropped"
    /\ steps' = steps + 1
    /\ UNCHANGED << store, db, run >>

\* onNodesChange for changes without a position change (a selection or a
\* dimensions change): the resolver runs on the list, nothing is saved and
\* no edge is touched
OtherChange ==
    /\ steps < MaxSteps
    /\ \E nodesAfterCollision \in { detectAndResolveCollisions(nodes, NoId) } :
          nodes' = nodesAfterCollision
    /\ last' = [kind |-> "otherChange", prevNodes |-> << >>, placed |-> << >>]
    /\ phase' = "none"
    /\ steps' = steps + 1
    /\ UNCHANGED << edges, store, timers, dragging, db, run >>

\* the callback of the setTimeout of onNodesChange: saveNodePositions
SaveTimer ==
    /\ steps < MaxSteps
    /\ timers # << >>
    /\ Head(timers).kind = "save"
    /\ store' = saveNodePositions(Head(timers).nodes)
    /\ timers' = Tail(timers)
    /\ last' = [kind |-> "save", prevNodes |-> << >>, placed |-> << >>]
    /\ phase' = IF phase = "dropped" /\ Len(timers) = 1 THEN "saved" ELSE "none"
    /\ steps' = steps + 1
    /\ UNCHANGED << nodes, edges, dragging, db, run >>

\* handleResetPositions: removeItem, the node list cut down to the centre
\* node, loadPeople scheduled
ResetPositions ==
    /\ steps < MaxSteps
    /\ store' = NoPositions
    /\ nodes' = IF \E k \in 1..Len(nodes) : IsUserCenter(nodes[k].id)
                THEN << nodes[CHOOSE k \in 1..Len(nodes) :
                           /\ IsUserCenter(nodes[k].id)
                           /\ \A m \in 1..(k - 1) : ~IsUserCenter(nodes[m].id)] >>
                ELSE fallbackNodes
    /\ timers' = Append(timers, [kind |-> "load", nodes |-> << >>])
    /\ dragging' = NoId
    /\ last' = [kind |-> "reset", prevNodes |-> << >>, placed |-> << >>]
    /\ phase' = "none"
    /\ steps' = steps + 1
    /\ UNCHANGED << edges, db, run >>

\* the callback of the setTimeout of handleResetPositions: loadPeople
LoadTimer ==
    /\ steps < MaxSteps
    /\ timers # << >>
    /\ Head(timers).kind = "load"
    /\ \E r \in { updateNodesAndEdges(db, nodes, store) } :
          /\ nodes' = r.nodes
          /\ edges' = r.edges
          /\ dragging' = IF HasNode(r.nodes, dragging) THEN dragging ELSE NoId
          /\ last' = [kind |-> "load", prevNodes |-> nodes, placed |-> r.placed]
    /\ timers' = Tail(timers)
    /\ phase' = "none"
    /\ steps' = steps + 1
    /\ UNCHANGED << store, db, run >>

\* the page is loaded again: React state and pending timers are gone, the
\* localStorage item stays
Refresh ==
    /\ steps < MaxSteps
    /\ last.kind # "init"
    /\ nodes' = fallbackNodes
    /\ edges' = << >>
    /\ timers' = << >>
    /\ dragging' = NoId
    /\ last' = [kind |-> "refresh", prevNodes |-> << >>, placed |-> << >>]
    /\ phase' = IF phase = "saved" THEN "refreshed" ELSE "none"
    /\ steps' = steps + 1
    /\ UNCHANGED << store, db, run >>

Next ==
    \/ \E peopleList \in PeopleLists : LoadPeople(peopleList)
    \/ \E id \in { ContactIds[k] : k \in 1..Len(ContactIds) }, position \in DragSpots :
          DragMove(id, position)
    \/ DragEnd
    \/ OtherChange
    \/ SaveTimer
    \/ ResetPositions
    \/ LoadTimer
    \/ Refresh

Spec == Init /\ [][Next]_vars

\* ------------------------------------------------------------------------
\* detectAndResolveCollisions, one pair per step
\* ------------------------------------------------------------------------
\* pointer positions and stored positions the model draws from: far from the
\* centre, 0.05 px and 0.15 px from the first, exactly MIN_DISTANCE from the
\* first, overlapping the first, overlapping the centre node, exactly
\* MIN_DISTANCE from the centre node
Spots == { << 4000, 0 >>, << 4001, 0 >>, << 4003, 0 >>, << 4625, 0 >>,
           << 4300, 400 >>, << 300, 400 >>, << 375, 500 >> }

\* node lists as updateNodesAndEdges builds them: the centre node first, then
\* one node per contact
ResolveInputs ==
    { fallbackNodes } \cup
    UNION { { << MkNode(CenterId, 0, 0) >> \o [k \in 1..n |-> MkNode(ContactIds[k], f[k][1], f[k][2])]
              : f \in [1..n -> Spots] } : n \in 1..MaxContacts }

NoStep == [hit |-> FALSE, i |-> 0, j |-> 0, before |-> << >>]

\* The objects behind the lists.  objects holds the node objects, each with
\* a reference into positions; caller is the array passed in and updated the
\* array the function works on, both holding references into objects.
\* The memory of a caller that passes the list ns:
CallerMemory(ns) ==
    [objects |-> [k \in 1..Len(ns) |->
                    [id |-> ns[k].id, draggable |-> ns[k].draggable, position |-> k]],
     positions |-> [k \in 1..Len(ns) |-> [x |-> ns[k].x, y |-> ns[k].y]],
     caller |-> [k \in 1..Len(ns) |-> k],
     updated |-> << >>]

\* const updatedNodes = nodes.map((n) => ({ ...n })): a new array of new
\* node objects, each with the fields of the old one, the reference to its
\* position object included
CopyNodes(mem) ==
    [mem EXCEPT
       !.objects = @ \o [k \in 1..Len(mem.caller) |-> mem.objects[mem.caller[k]]],
       !.updated = [k \in 1..Len(mem.caller) |-> Len(mem.objects) + k]]

\* the node list an array of references stands for
Deref(mem, array) ==
    [k \in 1..Len(array) |->
        LET object == mem.objects[array[k]]
        IN [id |-> object.id, x |-> mem.positions[object.position].x,
            y |-> mem.positions[object.position].y,
            draggable |-> object.draggable]]

\* ReplaceNode writing into the position object of the node in the slot
ReplaceNodeInPlace(mem, slot, x, y) ==
    [mem EXCEPT
       !.positions[mem.objects[mem.updated[slot]].position] = [x |-> x, y |-> y]]

\* updatedNodes[slot] = { ...updatedNodes[slot], position: { x, y } }: a new
\* position object, a new node object with the other fields of the old
\* one, and the slot of the array set to it
ReplaceNode(mem, slot, x, y) ==
    [mem EXCEPT
       !.positions = Append(@, [x |-> x, y |-> y]),
       !.objects = Append(@, [mem.objects[mem.updated[slot]] EXCEPT
                                !.position = Len(mem.positions) + 1]),
       !.updated[slot] = Len(mem.objects) + 1]

\* the first pair of a pass over n nodes, and the pair after (i, j)
HasPair(n) == n >= 2
LastPair(i, j, n) == i = n - 1 /\ j = n

RunInit ==
    /\ nodes = fallbackNodes
    /\ edges = << >>
    /\ store = NoPositions
    /\ timers = << >>
    /\ dragging = NoId
    /\ db = << >>
    /\ steps = 0
    /\ last = NoEvent
    /\ phase = "none"
    /\ \E input \in ResolveInputs :
         \E c \in { NoId } \cup { input[k].id : k \in 1..Len(input) } :
            run = [pc |-> "while", input |-> input, changedNodeId |-> c,
                   updatedNodes |-> input, nodeA |-> input[1], i |-> 0, j |-> 0,
                   hasCollisions |-> TRUE, iterations |-> 0, last |-> NoStep,
                   mem |-> CopyNodes(CallerMemory(input))]

\* the test of the while loop, and the entry into a pass
RunWhile ==
    /\ UNCHANGED appVars
    /\ run.pc = "while"
    /\ IF run.hasCollisions /\ run.iterations < maxIterations
       THEN IF HasPair(Len(run.updatedNodes))
            THEN run' = [run EXCEPT !.pc = "pair", !.hasCollisions = FALSE,
                                    !.iterations = @ + 1, !.i = 1, !.j = 2,
                                    !.nodeA = run.updatedNodes[1],
                                    !.last = NoStep]
            ELSE run' = [run EXCEPT !.hasCollisions = FALSE,
                                    !.iterations = @ + 1, !.last = NoStep]
       ELSE run' = [run EXCEPT !.pc = "done", !.last = NoStep]

\* the body of the inner loop for the pair (i, j), then j++ or i++
RunPair ==
    /\ UNCHANGED appVars
    /\ run.pc = "pair"
    /\ LET n == Len(run.updatedNodes)
           c == CorrectPair(run.updatedNodes, run.nodeA, run.i, run.j,
                            run.changedNodeId)
           step == [hit |-> c.hit, i |-> run.i, j |-> run.j,
                    before |-> run.updatedNodes]
           mem == IF c.hit
                  THEN ReplaceNode(ReplaceNode(run.mem, run.i, c.nodes[run.i].x,
                                               c.nodes[run.i].y),
                                   run.j, c.nodes[run.j].x, c.nodes[run.j].y)
                  ELSE run.mem
       IN IF LastPair(run.i, run.j, n)
          THEN run' = [run EXCEPT !.pc = "while", !.updatedNodes = c.nodes, !.mem = mem,
                                  !.hasCollisions = @ \/ c.hit,
                                  !.last = step]
          ELSE IF run.j = n
          THEN run' = [run EXCEPT !.updatedNodes = c.nodes, !.mem = mem,
                                  !.hasCollisions = @ \/ c.hit,
                                  !.i = @ + 1, !.j = run.i + 2,
                                  !.nodeA = c.nodes[run.i + 1],
                                  !.last = step]
          ELSE run' = [run EXCEPT !.updatedNodes = c.nodes, !.mem = mem,
                                  !.hasCollisions = @ \/ c.hit,
                                  !.j = @ + 1, !.last = step]

RunNext == RunWhile \/ RunPair

SpecResolve == RunInit /\ [][RunNext]_vars

\* the run agrees with the function
RunAgrees ==
    run.pc = "done" =>
        run.updatedNodes = detectAndResolveCollisions(run.input, run.changedNodeId)

\* ------------------------------------------------------------------------
\* Properties of detectAndResolveCollisions (under SpecResolve)
\* ------------------------------------------------------------------------
Returned == run.pc = "done"
MinSq == MIN_DISTANCE * MIN_DISTANCE

Contacts(ns) == { k \in 1..Len(ns) : ~IsUserCenter(ns[k].id) }
AllSeparated(ns) ==
    \A a, b \in 1..Len(ns) : a < b => Dist2(ns[a], ns[b]) >= MinSq
ContactsSeparated(ns) ==
    \A a, b \in Contacts(ns) : a < b => Dist2(ns[a], ns[b]) >= MinSq

\* the squared length of the displacement of node k in the last step
Moved2(k) ==
    LET b == run.last.before[k]
        a == run.updatedNodes[k]
    IN (a.x - b.x) * (a.x - b.x) + (a.y - b.y) * (a.y - b.y)

\* C1: the centre node ("user-center" or "fallback-user-center") is, at every
\* point of a run and so in the returned list, at its position in the input,
\* whatever the other nodes and whatever changedNodeId.
C1_AnchorInvariance ==
    \A k \in 1..Len(run.input) :
        IsUserCenter(run.input[k].id) =>
            /\ run.updatedNodes[k].x = run.input[k].x
            /\ run.updatedNodes[k].y = run.input[k].y

\* C1 witness: the call returned after a contact that overlapped the centre
\* node was pushed away from it.
C1_Witness ==
    /\ Returned
    /\ \E k \in Contacts(run.input) :
          /\ Dist2(run.input[1], run.input[k]) < MinSq
          /\ Dist2(run.input[1], run.input[k]) > 0
          /\ run.updatedNodes[k] # run.input[k]

C3_SeparationConvergence ==
    Returned => ContactsSeparated(run.updatedNodes)

\* C4: when every pair of the input is at least MIN_DISTANCE apart, the call
\* returns every node as it was in the input, after one pass.
C4_FixpointIdempotence ==
    (Returned /\ AllSeparated(run.input)) =>
        /\ run.updatedNodes = run.input
        /\ run.iterations = 1

\* C4 witness: the call returned on an input of three nodes that are pairwise
\* at least MIN_DISTANCE apart, one pair at exactly MIN_DISTANCE.
C4_Witness ==
    /\ Returned
    /\ Len(run.input) >= 3
    /\ AllSeparated(run.input)
    /\ \E a, b \in 1..Len(run.input) : Dist2(run.input[a], run.input[b]) = MinSq

\* a step corrected the pair (i, j) and one of the two is the dragged node
ActiveCorrection ==
    /\ run.last.hit
    /\ \/ run.last.before[run.last.i].id = run.changedNodeId
       \/ run.last.before[run.last.j].id = run.changedNodeId

ActiveIndex ==
    IF run.last.before[run.last.i].id = run.changedNodeId
    THEN run.last.i ELSE run.last.j
PartnerIndex ==
    IF run.last.before[run.last.i].id = run.changedNodeId
    THEN run.last.j ELSE run.last.i

\* C5 as claimed: in every corrected pair one of whose nodes is the dragged
\* node, the dragged node is displaced by strictly less than its partner.
C5_MinorityAsClaimed ==
    ActiveCorrection => Moved2(ActiveIndex) < Moved2(PartnerIndex)

\* C5 amended: in every corrected pair of two contacts one of which is the
\* dragged node, the dragged node is displaced by strictly less than its
\* partner.
C5_MinorityPush ==
    (/\ ActiveCorrection
     /\ ~IsUserCenter(run.last.before[run.last.i].id)
     /\ ~IsUserCenter(run.last.before[run.last.j].id))
        => Moved2(ActiveIndex) < Moved2(PartnerIndex)

\* C5 witness: a step corrected a pair of two contacts one of which is the
\* dragged node.
C5_Witness ==
    /\ ActiveCorrection
    /\ ~IsUserCenter(run.last.before[run.last.i].id)
    /\ ~IsUserCenter(run.last.before[run.last.j].id)
    /\ Moved2(PartnerIndex) > 0

\* ------------------------------------------------------------------------
\* Properties of the page (under Spec)
\* ------------------------------------------------------------------------
Position(ns, id) == << FindNode(ns, id).x, FindNode(ns, id).y >>

\* the placement computed for a person without existing or saved position
ComputedPlacement(peopleList, id, placedNodes, prevNodes) ==
    LET person == CHOOSE q \in { peopleList[k] : k \in 1..Len(peopleList) } : q.id = id
        introduced == SelectSeq(peopleList, LAMBDA q : q.introducer_id # NoId)
        children == Children(introduced, person.introducer_id)
        index == CHOOSE k \in 1..Len(children) : children[k].id = id
        introducerNode == IF HasNode(placedNodes, person.introducer_id)
                          THEN FindNode(placedNodes, person.introducer_id)
                          ELSE FindNode(prevNodes, person.introducer_id)
    IN IF person.introducer_id = NoId THEN DirectPlacement(id)
       ELSE IntroducedPlacement(id, Len(children), index - 1, introducerNode)

\* C6 as claimed: the position updateNodesAndEdges chooses for a contact is
\* the persisted one if the store has one, otherwise the one of the previous
\* node list if it has the node, otherwise the computed placement.
C6_PlacementPriority ==
    last.kind = "load" =>
        \A k \in Contacts(last.placed) :
            LET id == last.placed[k].id
            IN Position(last.placed, id) =
                 IF id \in DOMAIN store THEN store[id]
                 ELSE IF HasNode(last.prevNodes, id) THEN Position(last.prevNodes, id)
                 ELSE ComputedPlacement(db, id, last.placed, last.prevNodes)

\* C7 as claimed: after drag end, save, refresh and a load of the same
\* people, every contact whose position was saved is shown at that position.
C7_RoundTrip ==
    phase = "reloaded" =>
        \A id \in DOMAIN store :
            HasNode(nodes, id) /\ Position(nodes, id) = store[id]

\* C8: the stored map never has an entry for "user-center" or
\* "fallback-user-center".
C8_NoAnchorInStore ==
    \A id \in DOMAIN store : ~IsUserCenter(id)

\* C8 witness: a deferred save has written the positions of a node list that
\* holds the centre node and two contacts.
C8_Witness ==
    /\ last.kind = "save"
    /\ Cardinality(DOMAIN store) = 2
    /\ \E k \in 1..Len(nodes) : IsUserCenter(nodes[k].id)

\* C9 as claimed: after a data load both ends of every committed edge are
\* in the committed node list.
C9_NoDanglingEdges ==
    last.kind = "load" =>
        \A k \in 1..Len(edges) :
            HasNode(nodes, edges[k].source) /\ HasNode(nodes, edges[k].target)

\* C10 as claimed: after a drag-move or drag-end event every edge with both
\* ends in the node list carries the handles getHandleIndex gives for the
\* current positions of its ends.
C10_AttachmentFreshness ==
    last.kind \in { "dragMove", "dragEnd" } =>
        \A k \in 1..Len(edges) :
            (HasNode(nodes, edges[k].source) /\ HasNode(nodes, edges[k].target)) =>
                edges[k] = MkEdge(edges[k].source, edges[k].target,
                                  FindNode(nodes, edges[k].source),
                                  FindNode(nodes, edges[k].target))

\* C11 as claimed: the edges a data load commits carry the handles
\* getHandleIndex gives for the positions of the nodes the same load commits,
\* that is for the positions after the initial collision resolution.
C11_LoadOrdering ==
    last.kind = "load" =>
        \A k \in 1..Len(edges) :
            (HasNode(nodes, edges[k].source) /\ HasNode(nodes, edges[k].target)) =>
                edges[k] = MkEdge(edges[k].source, edges[k].target,
                                  FindNode(nodes, edges[k].source),
                                  FindNode(nodes, edges[k].target))

\* C12: an event with dragging = true (a drag move) leaves the stored map as
\* it is and schedules no save: the list of pending callbacks is unchanged.
C12_DragMoveNoPersist ==
    [][last'.kind = "dragMove" => (store' = store /\ timers' = timers)]_vars

\* C12 witness: a drag move was handled while the store held the positions
\* of an earlier save and no callback was pending.
C12_Witness ==
    /\ last.kind = "dragMove"
    /\ dragging # NoId
    /\ DOMAIN store # {}
    /\ timers = << >>
    /\ \E id \in DOMAIN store : HasNode(nodes, id) /\ Position(nodes, id) # store[id]

\* C13: the deferred save of a drag end replaces the stored map by the map
\* with exactly one entry per node other than the centre node of the list
\* the drag-end handler computed (nodesAfterCollision), each entry holding
\* the position of that node in that list.
C13_DragEndPersistence ==
    [][last'.kind = "save" =>
          LET saved == Head(timers).nodes
          IN /\ DOMAIN store' = { saved[k].id : k \in Contacts(saved) }
             /\ \A k \in Contacts(saved) :
                    store'[saved[k].id] = << saved[k].x, saved[k].y >>]_vars

\* C13 witness: the save after the drag of "p1" has stored the position of
\* "p1" and the position of "p2", which was not dragged, and the node list
\* still is the one of the drag end.
C13_Witness ==
    /\ last.kind = "save"
    /\ phase = "saved"
    /\ DOMAIN store = { "p1", "p2" }
    /\ store["p1"] = << 700, 0 >>
    /\ \A id \in DOMAIN store : HasNode(nodes, id) /\ Position(nodes, id) = store[id]

\* C14 as claimed: when the reload scheduled by handleResetPositions runs on
\* the node list the reset left (the centre node alone), the stored map it
\* reads has no entries and it places every contact at its computed initial
\* placement, also when a save scheduled by an earlier drag end was still
\* pending at the reset.
C14_ResetLayout ==
    [][(/\ timers # << >>
        /\ Head(timers).kind = "load"
        /\ last'.kind = "load"
        /\ timers' = Tail(timers)
        /\ Len(nodes) = 1) =>
          /\ store = NoPositions
          /\ \A k \in Contacts(last'.placed) :
                Position(last'.placed, last'.placed[k].id) =
                    ComputedPlacement(db, last'.placed[k].id, last'.placed,
                                      last'.prevNodes)]_vars

\* ------------------------------------------------------------------------
\* saveNodePositions and loadNodePositions as calls on localStorage
\* ------------------------------------------------------------------------
\* number of calls in a run of the storage functions
MaxCalls == 3

\* user?.id of a session without a signed-in user
NoUser == "no-user"
Users == { "u1", "u2" }

\* localStorage is a function from the user ids u of the keys
\* node-positions-<u> to items: the text JSON.stringify made of a map of
\* positions, or a text JSON.parse rejects
Payload(positions) == [kind |-> "json", positions |-> positions]
Corrupt == [kind |-> "corrupt", positions |-> NoPositions]
NoItems == [u \in {} |-> Corrupt]

\* localStorage.setItem(key, value)
setItem(storage, userId, item) ==
    [u \in DOMAIN storage \cup { userId } |->
        IF u = userId THEN item ELSE storage[u]]

\* saveNodePositionsAs without the test of user?.id
saveNodePositionsAsAnyone(userId, storage, ns, setItemThrows) ==
    IF setItemThrows
    THEN [storage |-> storage, threw |-> FALSE]
    ELSE [storage |-> setItem(storage, userId, Payload(saveNodePositions(ns))),
          threw |-> FALSE]

\* saveNodePositions called in the session of userId: the storage it leaves
\* and whether an exception left the function
saveNodePositionsAs(userId, storage, ns, setItemThrows) ==
    IF userId = NoUser
    THEN [storage |-> storage, threw |-> FALSE]
    ELSE IF setItemThrows
    THEN [storage |-> storage, threw |-> FALSE]
    ELSE [storage |-> setItem(storage, userId, Payload(saveNodePositions(ns))),
          threw |-> FALSE]

\* loadNodePositionsAs without try and catch
loadNodePositionsAsUncaught(userId, storage, getItemThrows) ==
    IF userId = NoUser
    THEN [positions |-> NoPositions, threw |-> FALSE]
    ELSE IF getItemThrows
    THEN [positions |-> NoPositions, threw |-> TRUE]
    ELSE IF userId \notin DOMAIN storage
    THEN [positions |-> NoPositions, threw |-> FALSE]
    ELSE IF storage[userId].kind = "corrupt"
    THEN [positions |-> NoPositions, threw |-> TRUE]
    ELSE [positions |-> loadNodePositions(storage[userId].positions),
          threw |-> FALSE]

\* loadNodePositions called in the session of userId: the map it returns
\* and whether an exception left the function
loadNodePositionsAs(userId, storage, getItemThrows) ==
    IF userId = NoUser
    THEN [positions |-> NoPositions, threw |-> FALSE]
    ELSE IF getItemThrows
    THEN [positions |-> NoPositions, threw |-> FALSE]
    ELSE IF userId \notin DOMAIN storage
    THEN [positions |-> NoPositions, threw |-> FALSE]
    ELSE IF storage[userId].kind = "corrupt"
    THEN [positions |-> NoPositions, threw |-> FALSE]
    ELSE [positions |-> loadNodePositions(storage[userId].positions),
          threw |-> FALSE]

\* node lists handed to saveNodePositions: the fallback list, one contact,
\* two contacts
StoreLists ==
    { fallbackNodes,
      << MkNode(CenterId, 0, 0), MkNode("p1", 700, 0) >>,
      << MkNode(CenterId, 0, 0), MkNode("p1", 700, 300), MkNode("p2", 5726, -2286) >> }

\* the storage a session may find: nothing, or an item that is no JSON
StoreInit ==
    /\ nodes = fallbackNodes
    /\ edges = << >>
    /\ store = NoPositions
    /\ timers = << >>
    /\ dragging = NoId
    /\ db = << >>
    /\ steps = 0
    /\ last = NoEvent
    /\ phase = "none"
    /\ \E u \in Users \cup { NoUser } :
         \E storage \in { NoItems } \cup { setItem(NoItems, w, Corrupt) : w \in Users } :
            run = [pc |-> "store", user |-> u, storage |-> storage,
                   nodes |-> fallbackNodes, op |-> "none", calls |-> 0,
                   before |-> storage, nodesBefore |-> fallbackNodes,
                   fault |-> FALSE, arg |-> << >>, people |-> << >>,
                   positions |-> NoPositions, threw |-> FALSE, placed |-> << >>]

\* the deferred save of a drag end: saveNodePositions(ns)
StoreSave(ns, setItemThrows) ==
    /\ UNCHANGED appVars
    /\ run.pc = "store"
    /\ run.calls < MaxCalls
    /\ \E r \in { saveNodePositionsAs(run.user, run.storage, ns, setItemThrows) } :
          run' = [run EXCEPT !.op = "save", !.calls = @ + 1,
                             !.before = run.storage, !.nodesBefore = run.nodes,
                             !.fault = setItemThrows, !.arg = ns,
                             !.people = << >>, !.storage = r.storage,
                             !.positions = NoPositions, !.threw = r.threw,
                             !.placed = << >>]

\* a data load: loadNodePositions() and, in the session of a user and when
\* no exception left it, the placement of updateNodesAndEdges
StoreLoad(peopleList, getItemThrows) ==
    /\ UNCHANGED appVars
    /\ run.pc = "store"
    /\ run.calls < MaxCalls
    /\ \E r \in { loadNodePositionsAs(run.user, run.storage, getItemThrows) } :
          IF r.threw \/ run.user = NoUser
          THEN run' = [run EXCEPT !.op = "load", !.calls = @ + 1,
                                  !.before = run.storage, !.nodesBefore = run.nodes,
                                  !.fault = getItemThrows, !.arg = << >>,
                                  !.people = peopleList,
                                  !.positions = r.positions, !.threw = r.threw,
                                  !.placed = << >>]
          ELSE \E u \in { updateNodesAndEdges(peopleList, run.nodes, r.positions) } :
               run' = [run EXCEPT !.op = "load", !.calls = @ + 1,
                                  !.before = run.storage, !.nodesBefore = run.nodes,
                                  !.fault = getItemThrows, !.arg = << >>,
                                  !.people = peopleList, !.nodes = u.nodes,
                                  !.positions = r.positions, !.threw = r.threw,
                                  !.placed = u.placed]

\* the page is opened in the session of userId (or without a user): React
\* state starts from fallbackNodes, localStorage stays
StoreSession(userId) ==
    /\ UNCHANGED appVars
    /\ run.pc = "store"
    /\ run.calls < MaxCalls
    /\ run' = [run EXCEPT !.op = "session", !.calls = @ + 1, !.user = userId,
                          !.before = run.storage, !.nodesBefore = run.nodes,
                          !.nodes = fallbackNodes, !.fault = FALSE,
                          !.arg = << >>, !.people = << >>,
                          !.positions = NoPositions, !.threw = FALSE,
                          !.placed = << >>]

StoreNext ==
    \/ \E ns \in StoreLists, setItemThrows \in BOOLEAN : StoreSave(ns, setItemThrows)
    \/ \E peopleList \in PeopleLists, getItemThrows \in BOOLEAN :
          StoreLoad(peopleList, getItemThrows)
    \/ \E userId \in Users \cup { NoUser } : StoreSession(userId)

SpecStore == StoreInit /\ [][StoreNext]_vars

\* ------------------------------------------------------------------------
\* Properties of the storage functions (under SpecStore)
\* ------------------------------------------------------------------------
\* C15: without a signed-in user saveNodePositions leaves every item of
\* localStorage as it was and loadNodePositions returns the empty map.
C15_NoUserNoOp ==
    (run.pc = "store" /\ run.user = NoUser) =>
        /\ run.op = "save" => (run.storage = run.before /\ ~run.threw)
        /\ run.op = "load" => (run.positions = NoPositions /\ ~run.threw)

\* C15 witness: saveNodePositions was called without a user for a list with
\* two contacts, while localStorage held the positions of another session.
C15_Witness ==
    /\ run.pc = "store"
    /\ run.user = NoUser
    /\ run.op = "save"
    /\ ~run.fault
    /\ Cardinality(Contacts(run.arg)) = 2
    /\ \E u \in DOMAIN run.storage :
          run.storage[u].kind = "json" /\ DOMAIN run.storage[u].positions # {}

\* the item of the current user cannot be read: getItem throws or the text
\* is no JSON
ReadFails ==
    \/ run.fault
    \/ run.user \in DOMAIN run.before /\ run.before[run.user].kind = "corrupt"

\* C16: when getItem or JSON.parse fails, loadNodePositions returns the empty
\* map without an exception and the load places every contact at its
\* position in the previous node list or at its computed placement; when
\* setItem fails, saveNodePositions returns without an exception and leaves
\* localStorage and the node list as they were.
C16_FailuresNonFatal ==
    (run.pc = "store" /\ run.user # NoUser) =>
        /\ (run.op = "load" /\ ReadFails) =>
              /\ ~run.threw
              /\ run.positions = NoPositions
              /\ run.placed # << >>
              /\ \A k \in Contacts(run.placed) :
                    Position(run.placed, run.placed[k].id) =
                        IF HasNode(run.nodesBefore, run.placed[k].id)
                        THEN Position(run.nodesBefore, run.placed[k].id)
                        ELSE ComputedPlacement(run.people, run.placed[k].id,
                                               run.placed, run.nodesBefore)
        /\ (run.op = "save" /\ run.fault) =>
              /\ ~run.threw
              /\ run.storage = run.before
              /\ run.nodes = run.nodesBefore

\* C16 witness: a load of two people found an item that is no JSON and
\* placed both contacts.
C16_Witness ==
    /\ run.pc = "store"
    /\ run.user # NoUser
    /\ run.op = "load"
    /\ ~run.fault
    /\ run.user \in DOMAIN run.before
    /\ run.before[run.user].kind = "corrupt"
    /\ Cardinality(Contacts(run.placed)) = 2

\* ------------------------------------------------------------------------
\* The two resolve loops, one pass per step: detectAndResolveCollisions
\* ("drag") and the loop at the end of updateNodesAndEdges ("load")
\* ------------------------------------------------------------------------
PassInit ==
    /\ nodes = fallbackNodes
    /\ edges = << >>
    /\ store = NoPositions
    /\ timers = << >>
    /\ dragging = NoId
    /\ db = << >>
    /\ steps = 0
    /\ last = NoEvent
    /\ phase = "none"
    /\ \E input \in ResolveInputs :
         \/ \E c \in { NoId } \cup { input[k].id : k \in 1..Len(input) } :
              run = [pc |-> "passes", resolver |-> "drag", input |-> input,
                     changedNodeId |-> c, resolvedNodes |-> input,
                     before |-> input, hasCollisions |-> TRUE, iterations |-> 0]
         \/ run = [pc |-> "passes", resolver |-> "load", input |-> input,
                    changedNodeId |-> NoId, resolvedNodes |-> input,
                    before |-> input, hasCollisions |-> TRUE, iterations |-> 0]

\* the body of the while loop of detectAndResolveCollisions: one pass
DragPass ==
    /\ UNCHANGED appVars
    /\ run.pc = "passes"
    /\ run.resolver = "drag"
    /\ run.hasCollisions /\ run.iterations < maxIterations
    /\ \E r \in { OuterLoop(run.resolvedNodes, 1, run.changedNodeId, FALSE) } :
          run' = [run EXCEPT !.before = run.resolvedNodes,
                             !.resolvedNodes = r.nodes,
                             !.hasCollisions = r.hasCollisions,
                             !.iterations = @ + 1]

\* the body of the while loop at the end of updateNodesAndEdges: one pass
LoadPass ==
    /\ UNCHANGED appVars
    /\ run.pc = "passes"
    /\ run.resolver = "load"
    /\ run.hasCollisions /\ run.iterations < maxIterations
    /\ \E r \in { InitialOuter(run.resolvedNodes, 1, FALSE) } :
          run' = [run EXCEPT !.before = run.resolvedNodes,
                             !.resolvedNodes = r.nodes,
                             !.hasCollisions = r.hasCollisions,
                             !.iterations = @ + 1]

\* the while test fails: the loop is left and the list returned
PassReturn ==
    /\ UNCHANGED appVars
    /\ run.pc = "passes"
    /\ ~(run.hasCollisions /\ run.iterations < maxIterations)
    /\ run' = [run EXCEPT !.pc = "returned"]

PassNext == DragPass \/ LoadPass \/ PassReturn

SpecPasses == PassInit /\ [][PassNext]_vars

\* the passes agree with the functions
PassesAgree ==
    (run.pc = "returned") =>
        run.resolvedNodes =
            IF run.resolver = "drag"
            THEN detectAndResolveCollisions(run.input, run.changedNodeId)
            ELSE InitialWhile(run.input, TRUE, 0).nodes

\* ------------------------------------------------------------------------
\* Properties of the two resolve loops (under SpecPasses)
\* ------------------------------------------------------------------------
\* C17: each of the two loops makes at most 10 passes over the pairs of
\* nodes, whatever the input, and then returns: the pass counter never
\* exceeds 10, every step of a call is a full pass that raises the counter
\* by one or is the return, and a call whose counter is 10 can only return.
C17_BoundedTermination ==
    /\ [](run.iterations <= 10)
    /\ [][\/ run'.pc = "passes" /\ run'.iterations = run.iterations + 1
          \/ run'.pc = "returned" /\ run'.resolvedNodes = run.resolvedNodes]_vars
    /\ [][run.iterations = 10 => run'.pc = "returned"]_vars

\* C17 witness: a loop has returned after 10 passes, the last of which
\* still corrected a pair.
C17_Witness ==
    /\ run.pc = "returned"
    /\ run.iterations = 10
    /\ run.hasCollisions

\* ------------------------------------------------------------------------
\* seedRandomFromString
\* ------------------------------------------------------------------------
\* length of the keys drawn from KeyCodes
MaxKeyLen == 3

\* UTF-16 code units of the generated keys: "-", "1", "a", "p" and the
\* largest code unit
KeyCodes == { 45, 49, 97, 112, 65535 }

\* the keys of the placement of "p1", "p2" and "p3": id + "-angle" and
\* id + "-radius" as sequences of code units
AngleKey(d) == << 112, d, 45, 97, 110, 103, 108, 101 >>
RadiusKey(d) == << 112, d, 45, 114, 97, 100, 105, 117, 115 >>
PlacementKeys == UNION { { AngleKey(d), RadiusKey(d) } : d \in { 49, 50, 51 } }

SeedKeys ==
    PlacementKeys \cup UNION { [1..n -> KeyCodes] : n \in 0..MaxKeyLen }

\* h is an unsigned 32-bit number, kept as << high half, low half >> of 16
\* bits each
HalfWord == 65536

\* h = (h * 31 + key.charCodeAt(i)) >>> 0
FoldStep(h, code) ==
    LET low == h[2] * 31 + code
    IN << (h[1] * 31 + (low \div HalfWord)) % HalfWord, low % HalfWord >>

\* h % 10000 for h read as a signed 32-bit number (the result of | 0)
ResidueSigned(h) ==
    IF h[1] >= 32768
    THEN -((((65535 - h[1]) % 10000) * (HalfWord % 10000) + (HalfWord - h[2])) % 10000)
    ELSE ((h[1] % 10000) * (HalfWord % 10000) + h[2]) % 10000

\* h % 10000
Residue(h) == ((h[1] % 10000) * (HalfWord % 10000) + h[2]) % 10000

RECURSIVE Fold(_, _, _)
\* the for loop over the characters of key, from index i
Fold(key, i, h) ==
    IF i > Len(key) THEN h ELSE Fold(key, i + 1, FoldStep(h, key[i]))

\* seedRandomFromString(key) in ten-thousandths: the code returns
\* (h % 10000) / 10000
seedRandomFromString(key) == Residue(Fold(key, 1, << 0, 0 >>))

\* two calls of seedRandomFromString with one key, one character per step
SeedInit ==
    /\ nodes = fallbackNodes
    /\ edges = << >>
    /\ store = NoPositions
    /\ timers = << >>
    /\ dragging = NoId
    /\ db = << >>
    /\ steps = 0
    /\ last = NoEvent
    /\ phase = "none"
    /\ \E key \in SeedKeys :
          run = [pc |-> "seed", key |-> key, i |-> 1, h |-> << 0, 0 >>,
                 value |-> 0, calls |-> 1, first |-> 0]

\* the body of the for loop
SeedChar ==
    /\ UNCHANGED appVars
    /\ run.pc = "seed"
    /\ run.i <= Len(run.key)
    /\ run' = [run EXCEPT !.h = FoldStep(run.h, run.key[run.i]), !.i = @ + 1]

\* return (h % 10000) / 10000
SeedReturn ==
    /\ UNCHANGED appVars
    /\ run.pc = "seed"
    /\ run.i > Len(run.key)
    /\ run' = [run EXCEPT !.pc = "seeded", !.value = Residue(run.h)]

\* the function is called again with the same key
SeedAgain ==
    /\ UNCHANGED appVars
    /\ run.pc = "seeded"
    /\ run.calls = 1
    /\ run' = [run EXCEPT !.pc = "seed", !.i = 1, !.h = << 0, 0 >>,
                          !.value = 0, !.calls = 2, !.first = run.value]

SeedNext == SeedChar \/ SeedReturn \/ SeedAgain

SpecSeed == SeedInit /\ [][SeedNext]_vars

\* the tables of the initial placement hold the seeds of the keys of "p1",
\* "p2" and "p3"
SeedTable ==
    /\ seedRandomFromString(AngleKey(49)) = 9383
    /\ seedRandomFromString(RadiusKey(49)) = 2030
    /\ seedRandomFromString(AngleKey(50)) = 5768
    /\ seedRandomFromString(RadiusKey(50)) = 5069
    /\ seedRandomFromString(AngleKey(51)) = 9449
    /\ seedRandomFromString(RadiusKey(51)) = 5404

\* ------------------------------------------------------------------------
\* Properties of seedRandomFromString (under SpecSeed)
\* ------------------------------------------------------------------------
\* C18: h stays an unsigned 32-bit number through the fold; the value
\* returned for a key is (h mod 10000) / 10000 for the fold of its
\* characters, at least 0 and less than 1 (0..9999 ten-thousandths), and a
\* second call with the same key returns the value of the first.
C18_SeederRange ==
    /\ run.h[1] \in 0..(HalfWord - 1)
    /\ run.h[2] \in 0..(HalfWord - 1)
    /\ run.pc = "seeded" =>
          /\ run.value >= 0
          /\ run.value < 10000
          /\ run.value = seedRandomFromString(run.key)
          /\ run.calls = 2 => run.value = run.first

\* C18 witness: the second call has returned for a key whose fold is above
\* 2^31, after wrapping around 2^32.
C18_Witness ==
    /\ run.pc = "seeded"
    /\ run.calls = 2
    /\ Len(run.key) >= 8
    /\ run.h[1] >= 32768
    /\ run.value > 0

\* ------------------------------------------------------------------------
\* Properties of the centre node (under Spec)
\* ------------------------------------------------------------------------
Anchors(ns) == { k \in 1..Len(ns) : IsUserCenter(ns[k].id) }

\* C19: in every state reached by data loads, drags of contacts, saves,
\* resets and refreshes, the node list holds exactly one centre node and it
\* is at (0, 0).
C19_AnchorPinned ==
    /\ Cardinality(Anchors(nodes)) = 1
    /\ \A k \in Anchors(nodes) : nodes[k].x = 0 /\ nodes[k].y = 0

\* C19 witness: a contact was dragged onto the centre node and the resolver
\* pushed the contact away, to MIN_DISTANCE + BOUNCE_FORCE from the centre.
C19_Witness ==
    /\ last.kind = "dragMove"
    /\ \E k \in Contacts(nodes) :
          /\ nodes[k].id = dragging
          /\ nodes[k].x = 435
          /\ nodes[k].y = 580

\* the contact k of the list before the last pass overlaps the centre node a
\* (more than 0.1 px and less than MIN_DISTANCE apart) and every other
\* contact is at least three times MIN_DISTANCE from k, out of reach of k
\* in that pass
AnchorPairAlone(a, k) ==
    /\ Dist2(run.before[a], run.before[k]) < MinSq
    /\ Dist2(run.before[a], run.before[k]) > EPSILON * EPSILON
    /\ \A m \in Contacts(run.before) \ { k } :
          Dist2(run.before[m], run.before[k]) >= 9 * MinSq

\* C20 as claimed: in a pass of either loop a contact that overlaps the
\* centre node is pushed away from it and the centre node stays: after the
\* pass their distance is MIN_DISTANCE + BOUNCE_FORCE (within 0.1 px, the
\* rounding of the model).
C20_AnchorPairPush ==
    (run.pc \in { "passes", "returned" } /\ run.iterations >= 1) =>
        \A a \in Anchors(run.before), k \in Contacts(run.before) :
            AnchorPairAlone(a, k) =>
                /\ run.resolvedNodes[a] = run.before[a]
                /\ Dist2(run.resolvedNodes[a], run.resolvedNodes[k])
                      >= (MIN_DISTANCE + BOUNCE_FORCE - 2) * (MIN_DISTANCE + BOUNCE_FORCE - 2)
                /\ Dist2(run.resolvedNodes[a], run.resolvedNodes[k])
                      <= (MIN_DISTANCE + BOUNCE_FORCE + 2) * (MIN_DISTANCE + BOUNCE_FORCE + 2)

\* ------------------------------------------------------------------------
\* Properties of the push (under SpecPasses)
\* ------------------------------------------------------------------------
\* the contacts a and b of the list before the last pass overlap (more than
\* 0.1 px and less than MIN_DISTANCE apart) and every other node is at least
\* three times MIN_DISTANCE from both, out of their reach in that pass
ContactPairAlone(a, b) ==
    /\ a < b
    /\ Dist2(run.before[a], run.before[b]) < MinSq
    /\ Dist2(run.before[a], run.before[b]) > EPSILON * EPSILON
    /\ \A m \in (1..Len(run.before)) \ { a, b } :
          /\ Dist2(run.before[m], run.before[a]) >= 9 * MinSq
          /\ Dist2(run.before[m], run.before[b]) >= 9 * MinSq

\* pushDistance = (MIN_DISTANCE - distance) + BOUNCE_FORCE of a pair
PairPushDistance(a, b) ==
    MIN_DISTANCE - Sqrt(Dist2(run.before[a], run.before[b])) + BOUNCE_FORCE

\* C21 as claimed: in a pass of detectAndResolveCollisions the shares of an
\* overlapping pair of contacts add up to pushDistance (within the rounding
\* of the two shares), so that the one correction of an isolated pair
\* brings its distance to MIN_DISTANCE + BOUNCE_FORCE (within 0.1 px).
C21_PushSplit ==
    (run.pc \in { "passes", "returned" } /\ run.resolver = "drag"
       /\ run.iterations >= 1) =>
        \A a, b \in Contacts(run.before) :
            ContactPairAlone(a, b) =>
                LET shares == PushShares(run.before[a].id, run.before[b].id,
                                         run.changedNodeId, PairPushDistance(a, b))
                IN /\ Abs(shares[1] + shares[2] - PairPushDistance(a, b)) <= 1
                   /\ Dist2(run.resolvedNodes[a], run.resolvedNodes[b])
                         >= (MIN_DISTANCE + BOUNCE_FORCE - 2) * (MIN_DISTANCE + BOUNCE_FORCE - 2)
                   /\ Dist2(run.resolvedNodes[a], run.resolvedNodes[b])
                         <= (MIN_DISTANCE + BOUNCE_FORCE + 2) * (MIN_DISTANCE + BOUNCE_FORCE + 2)

\* C22 as claimed: the loop at the end of updateNodesAndEdges returns, for
\* every node list, the list that detectAndResolveCollisions returns for
\* it without an active node.
C22_OneResolver ==
    (run.pc = "returned" /\ run.resolver = "load") =>
        run.resolvedNodes = detectAndResolveCollisions(run.input, NoId)

\* every node other than a and b of the list before the last pass is at
\* least three times MIN_DISTANCE from both
PairAlone(a, b) ==
    /\ a < b
    /\ \A m \in (1..Len(run.before)) \ { a, b } :
          /\ Dist2(run.before[m], run.before[a]) >= 9 * MinSq
          /\ Dist2(run.before[m], run.before[b]) >= 9 * MinSq

\* the last pass moved a node of the pair
PairCorrected(a, b) ==
    \/ run.resolvedNodes[a] # run.before[a]
    \/ run.resolvedNodes[b] # run.before[b]

\* C23 as claimed: in a pass of either resolve loop a pair of contacts (with
\* no other node near) is corrected if and only if its distance d satisfies
\* 0.1 px <= d < MIN_DISTANCE, and the pass asks for another pass if and
\* only if it corrected the pair: a pair at exactly MIN_DISTANCE and a pair
\* closer than 0.1 px are not moved and do not cause another pass.
C23_CollisionPredicate ==
    (run.pc \in { "passes", "returned" } /\ run.iterations >= 1) =>
        \A a, b \in Contacts(run.before) :
            PairAlone(a, b) =>
                /\ PairCorrected(a, b) <=>
                      /\ Dist2(run.before[a], run.before[b]) >= EPSILON * EPSILON
                      /\ Dist2(run.before[a], run.before[b]) < MinSq
                /\ run.hasCollisions <=> PairCorrected(a, b)

\* ------------------------------------------------------------------------
\* getHandleIndex on its own: the two calls made for an edge whose target
\* lies (dx, dy) from its source
\* ------------------------------------------------------------------------
\* largest coordinate difference drawn, in units
MaxDelta == 8

HandleInit ==
    /\ nodes = fallbackNodes
    /\ edges = << >>
    /\ store = NoPositions
    /\ timers = << >>
    /\ dragging = NoId
    /\ db = << >>
    /\ steps = 0
    /\ last = NoEvent
    /\ phase = "none"
    /\ \E dx, dy \in (-MaxDelta)..MaxDelta :
          run = [pc |-> "direction", dx |-> dx, dy |-> dy,
                 sourceHandleIndex |-> 0, targetHandleIndex |-> 0]

\* const sourceHandleIndex = getHandleIndex(dx, dy)
HandleSource ==
    /\ UNCHANGED appVars
    /\ run.pc = "direction"
    /\ run' = [run EXCEPT !.pc = "source",
                          !.sourceHandleIndex = getHandleIndex(run.dx, run.dy)]

\* const targetHandleIndex = getHandleIndex(-dx, -dy)
HandleTarget ==
    /\ UNCHANGED appVars
    /\ run.pc = "source"
    /\ run' = [run EXCEPT !.pc = "target",
                          !.targetHandleIndex = TargetHandleIndex(run.dx, run.dy)]

HandleNext == HandleSource \/ HandleTarget

SpecHandle == HandleInit /\ [][HandleNext]_vars

\* ------------------------------------------------------------------------
\* Properties of getHandleIndex (under SpecHandle)
\* ------------------------------------------------------------------------
\* how far the handle of an index lies in the direction (dx, dy): the larger,
\* the nearer the handle is to that direction
Towards(index, dx, dy) == HandleCos(index) * dx + HandleSin(index) * dy

\* C24: for every direction (dx, dy) other than (0, 0) the index returned by
\* getHandleIndex is an integer from 0 to 63 and its handle is nearer to
\* the direction than each of the other 63 handles of PersonCircleNode
\* (index 0 at the top, then clockwise); the index computed for the target
\* side from (-dx, -dy) is (sourceHandleIndex + 32) mod 64.
C24_HandleSelector ==
    (run.pc \in { "source", "target" } /\ (run.dx # 0 \/ run.dy # 0)) =>
        /\ run.sourceHandleIndex \in 0..63
        /\ \A k \in (0..63) \ { run.sourceHandleIndex } :
              Towards(run.sourceHandleIndex, run.dx, run.dy) > Towards(k, run.dx, run.dy)
        /\ HandleCos(0) = 0 /\ HandleSin(0) < 0
        /\ HandleCos(16) > 0 /\ HandleSin(16) = 0
        /\ run.pc = "target" =>
              run.targetHandleIndex = (run.sourceHandleIndex + 32) % 64

\* C24 witness: both indices are computed for a direction off the axes whose
\* source index is in the second half of the circle, so that the target
\* index wraps around.
C24_Witness ==
    /\ run.pc = "target"
    /\ run.dx < 0 /\ run.dy > 0
    /\ run.sourceHandleIndex > 32
    /\ run.targetHandleIndex < 16

C26_PositionsOnlyOnDrag ==
    [][last'.kind = "otherChange" => nodes' = nodes]_vars

\* ------------------------------------------------------------------------
\* Frame of detectAndResolveCollisions (under SpecResolve)
\* ------------------------------------------------------------------------
\* C27: at every point of a call of detectAndResolveCollisions, and so when
\* it returns, the working list has the length of the input, the same ids in
\* the same order and the same draggable flag for every node; the array
\* passed in still refers to the caller's node objects, and these objects
\* and their position objects hold what they held at the call.
C27_ResolveFrame ==
    /\ Len(run.updatedNodes) = Len(run.input)
    /\ \A k \in 1..Len(run.input) :
          /\ run.updatedNodes[k].id = run.input[k].id
          /\ run.updatedNodes[k].draggable = run.input[k].draggable
    /\ Deref(run.mem, run.mem.updated) = run.updatedNodes
    /\ run.mem.caller = [k \in 1..Len(run.input) |-> k]
    /\ \A k \in 1..Len(run.input) :
          /\ run.mem.objects[k] = CallerMemory(run.input).objects[k]
          /\ run.mem.positions[k] = CallerMemory(run.input).positions[k]
    /\ Deref(run.mem, run.mem.caller) = run.input

\* C27 witness: the function has returned a list in which both contacts
\* have been moved.
C27_Witness ==
    /\ Returned
    /\ Len(run.input) = 3
    /\ \A k \in 2..3 : << run.updatedNodes[k].x, run.updatedNodes[k].y >>
                            # << run.input[k].x, run.input[k].y >>

\* ------------------------------------------------------------------------
\* detectAndResolveCollisions on two overlapping nodes, one pass per step
\* ------------------------------------------------------------------------
\* where the second node of the pair lies from the first: every distance
\* from 0.15 px to 31.2 px along the x axis, and every multiple of 0.25 px
\* in that range along the direction (3, 4)
PairOffsets ==
    { << g, 0 >> : g \in (EPSILON + 1)..(MIN_DISTANCE - 1) } \cup
    { << 3 * k, 4 * k >> : k \in 1..((MIN_DISTANCE - 1) \div 5) }

\* the centre node and a contact, or two contacts far from the centre node
PairInputs ==
    { << MkNode(CenterId, 0, 0), MkNode("p1", o[1], o[2]) >> : o \in PairOffsets } \cup
    { << MkNode(CenterId, 0, 0), MkNode("p1", 4000, 0),
         MkNode("p2", 4000 + o[1], o[2]) >> : o \in PairOffsets }

PairInit ==
    /\ nodes = fallbackNodes
    /\ edges = << >>
    /\ store = NoPositions
    /\ timers = << >>
    /\ dragging = NoId
    /\ db = << >>
    /\ steps = 0
    /\ last = NoEvent
    /\ phase = "none"
    /\ \E input \in PairInputs :
         \E c \in { NoId } \cup { input[k].id : k \in 2..Len(input) } :
            run = [pc |-> "passes", resolver |-> "drag", input |-> input,
                   changedNodeId |-> c, resolvedNodes |-> input,
                   before |-> input, hasCollisions |-> TRUE, iterations |-> 0]

PairNext == DragPass \/ PassReturn

SpecPair == PairInit /\ [][PairNext]_vars

\* C28: called on two nodes at a distance above 0.1 px and below
\* MIN_DISTANCE, at most one of them the centre node, with either, neither
\* or (for two contacts) one of them the active node,
\* detectAndResolveCollisions returns them at least MIN_DISTANCE apart, and
\* it returns because a pass found no collision, after fewer than 10 passes.
C28_TwoNodeConvergence ==
    run.pc = "returned" =>
        LET n == Len(run.input)
        IN /\ Dist2(run.input[n - 1], run.input[n]) > EPSILON * EPSILON
           /\ Dist2(run.input[n - 1], run.input[n]) < MinSq
           /\ Dist2(run.resolvedNodes[n - 1], run.resolvedNodes[n]) >= MinSq
           /\ ~run.hasCollisions
           /\ run.iterations < 10

\* C28 witness: two contacts 0.15 px apart, one of them the active node,
\* have been returned after five passes, of which four corrected the pair.
C28_Witness ==
    /\ run.pc = "returned"
    /\ Len(run.input) = 3
    /\ Dist2(run.input[2], run.input[3]) = (EPSILON + 1) * (EPSILON + 1)
    /\ run.changedNodeId = "p2"
    /\ run.iterations = 5

\* ------------------------------------------------------------------------
\* updateNodesAndEdges on its own, for every well-formed people list
\* ------------------------------------------------------------------------
\* a row for every id of ContactIds and every introducer_id
PersonRows ==
    { Person(ContactIds[k], i) :
        k \in 1..Len(ContactIds),
        i \in { NoId } \cup { ContactIds[m] : m \in 1..Len(ContactIds) } }

\* the ids are unique, every introducer_id is the id of another row, and the
\* rows can be ranked so that every introducer ranks before those it
\* introduced (no cycle); the rows come in any order
WellFormed(peopleList) ==
    /\ \A k, m \in 1..Len(peopleList) :
          peopleList[k].id = peopleList[m].id => k = m
    /\ \E rank \in [1..Len(peopleList) -> 1..Len(peopleList)] :
          \A k \in 1..Len(peopleList) :
              peopleList[k].introducer_id # NoId =>
                  \E m \in 1..Len(peopleList) :
                      /\ peopleList[m].id = peopleList[k].introducer_id
                      /\ rank[m] < rank[k]

WellFormedLists ==
    { peopleList \in UNION { [1..n -> PersonRows] : n \in 1..Len(ContactIds) } :
        WellFormed(peopleList) }

\* previous node lists: the first load, a load after a reset, and a load
\* over a list that already has a contact
PrevLists ==
    { fallbackNodes,
      << MkNode(CenterId, 0, 0) >>,
      << MkNode(CenterId, 0, 0), MkNode("p1", 700, 0) >> }

PlaceInit ==
    /\ nodes = fallbackNodes
    /\ edges = << >>
    /\ store = NoPositions
    /\ timers = << >>
    /\ dragging = NoId
    /\ db = << >>
    /\ steps = 0
    /\ last = NoEvent
    /\ phase = "none"
    /\ \E peopleList \in WellFormedLists, prevNodes \in PrevLists :
          run = [pc |-> "call", peopleList |-> peopleList, prevNodes |-> prevNodes,
                 committedNodes |-> << >>, committedEdges |-> << >>]

\* the updater passed to setNodes runs: setEdges(edges), return resolvedNodes
PlacePeople ==
    /\ UNCHANGED appVars
    /\ run.pc = "call"
    /\ \E r \in { updateNodesAndEdges(run.peopleList, run.prevNodes, NoPositions) } :
          run' = [run EXCEPT !.pc = "committed", !.committedNodes = r.nodes,
                             !.committedEdges = r.edges]

PlaceNext == PlacePeople

SpecPlace == PlaceInit /\ [][PlaceNext]_vars

\* C29 as claimed: for every well-formed people list, in any order, and any
\* previous node list, the committed node list is the centre node and
\* exactly one node per person, and every contact is the target of exactly
\* one committed edge, which comes from its introducer, or from the centre
\* node if it has none.
C29_NodeSetComplete ==
    run.pc = "committed" =>
        /\ Len(run.committedNodes) = Len(run.peopleList) + 1
        /\ Cardinality({ k \in 1..Len(run.committedNodes) :
                            run.committedNodes[k].id = CenterId }) = 1
        /\ \A p \in 1..Len(run.peopleList) :
              /\ Cardinality({ k \in 1..Len(run.committedNodes) :
                      run.committedNodes[k].id = run.peopleList[p].id }) = 1
              /\ Cardinality({ k \in 1..Len(run.committedEdges) :
                      run.committedEdges[k].target = run.peopleList[p].id }) = 1
              /\ \A k \in 1..Len(run.committedEdges) :
                    run.committedEdges[k].target = run.peopleList[p].id =>
                        run.committedEdges[k].source =
                            IF run.peopleList[p].introducer_id = NoId THEN CenterId
                            ELSE run.peopleList[p].introducer_id

\* ------------------------------------------------------------------------
\* Calls of loadPeople that overlap: each call awaits getPeople, then
\* getEventsForPeople, then commits with updateNodesAndEdges
\* ------------------------------------------------------------------------
\* number of calls of loadPeople
MaxLoads == 3

\* what the people table can hold: the well-formed lists of PeopleLists
Tables == { peopleList \in PeopleLists : WellFormed(peopleList) }

LoadsInit ==
    /\ nodes = fallbackNodes
    /\ edges = << >>
    /\ store = NoPositions
    /\ timers = << >>
    /\ dragging = NoId
    /\ db \in Tables
    /\ steps = 0
    /\ last = NoEvent
    /\ phase = "none"
    /\ run = [pc |-> "loads", started |-> 0, inFlight |-> { }, fetched |-> << >>]

\* a person is added or deleted (or positions are reset) and loadPeople is
\* called: the call is in flight, waiting for getPeople
CallLoadPeople(peopleList) ==
    /\ run.started < MaxLoads
    /\ db' = peopleList
    /\ run' = [run EXCEPT
                 !.started = @ + 1,
                 !.inFlight = @ \cup { [call |-> run.started + 1, awaiting |-> "getPeople"] },
                 !.fetched = Append(@, << >>)]
    /\ UNCHANGED << nodes, edges, store, timers, dragging, steps, last, phase >>

\* await getPeople(user.id) of a call returns the rows of the table
GetPeopleReturns(call) ==
    /\ [call |-> call, awaiting |-> "getPeople"] \in run.inFlight
    /\ run' = [run EXCEPT
                 !.inFlight = (@ \ { [call |-> call, awaiting |-> "getPeople"] })
                                \cup { [call |-> call, awaiting |-> "getEventsForPeople"] },
                 !.fetched[call] = db]
    /\ UNCHANGED appVars

\* await getEventsForPeople of a call returns: updateNodesAndEdges commits
\* the nodes and edges for the rows that call fetched
GetEventsReturns(call) ==
    /\ [call |-> call, awaiting |-> "getEventsForPeople"] \in run.inFlight
    /\ \E r \in { updateNodesAndEdges(run.fetched[call], nodes, store) } :
          /\ nodes' = r.nodes
          /\ edges' = r.edges
          /\ last' = [kind |-> "load", prevNodes |-> nodes, placed |-> r.placed]
    /\ run' = [run EXCEPT
                 !.inFlight = @ \ { [call |-> call, awaiting |-> "getEventsForPeople"] }]
    /\ UNCHANGED << store, timers, dragging, db, steps, phase >>

LoadsNext ==
    \/ \E peopleList \in Tables : CallLoadPeople(peopleList)
    \/ \E call \in 1..MaxLoads : GetPeopleReturns(call)
    \/ \E call \in 1..MaxLoads : GetEventsReturns(call)

SpecLoads == LoadsInit /\ [][LoadsNext]_vars

\* the ids of the rows of a people list
PeopleIds(peopleList) == { peopleList[k].id : k \in 1..Len(peopleList) }

\* C30 as claimed: once every call of loadPeople has completed, the node and
\* edge lists are those of the rows fetched by the call started last: every
\* contact node and every edge target is a person of these rows, and every
\* person of these rows without introducer, or with its introducer among
\* them, has a node.
C30_LatestLoadWins ==
    (run.pc = "loads" /\ run.started > 0 /\ run.inFlight = { }) =>
        LET latest == run.fetched[run.started]
        IN /\ \A k \in Contacts(nodes) : nodes[k].id \in PeopleIds(latest)
           /\ \A k \in 1..Len(edges) : edges[k].target \in PeopleIds(latest)
           /\ \A p \in 1..Len(latest) :
                 (latest[p].introducer_id \in { NoId } \cup PeopleIds(latest))
                     => HasNode(nodes, latest[p].id)

====
